---- MODULE Spec2Model ----
(***************************************************************************)
(* A model of fmgr.py (class FileMgmt): the extension index and its cache, *)
(* the statistics engine, the duplicate detector, the compression          *)
(* estimator and the lossy reduction estimator.                            *)
(*                                                                         *)
(* Paths are sequences of one-character strings, so that os.path.splitext  *)
(* is computed rather than assumed.  File contents are run-length encoded  *)
(* byte streams (a sequence of runs [b |-> byte, n |-> count]); the size   *)
(* of a file is the length of its byte stream.                             *)
(*                                                                         *)
(* The file tree is chosen in Init and does not change during a run: the   *)
(* program is one process that reads the tree.  glob's iteration order is  *)
(* fixed to the order of the entry table.                                  *)
(***************************************************************************)
EXTENDS Integers, Sequences, FiniteSets, TLC

VARIABLES
    fs,          \* the file entries that exist in the tree (ids into EntryTab)
    extdicts,    \* FileMgmt.extdicts: dir_path -> extension index
    scans,       \* per dir_path, the number of recursive scans get_ext_map ran
    sample_zip,  \* whether 'sample.zip' exists on disk
    sample_jpg,  \* whether <root>/sample.jpg exists on disk
    op,          \* the last operation called and its arguments
    result,      \* "returned", or the name of the exception it raised
    retval,      \* the value the last operation returned (None when it has none)
    printed,     \* the lines the last operation printed
    dict_hash,   \* find_duplicates' dict_hash at the end of the last call
    pc,          \* per worker, its position inside compress_file
    wfile,       \* per worker, the file it is measuring
    zip_disk,    \* the file 'sample.zip' as the concurrent workers see it
    zf           \* per worker, the state of its ZipFile object

vars == <<fs, extdicts, scans, sample_zip, sample_jpg, op, result, retval,
          printed, dict_hash, pc, wfile, zip_disk, zf>>

seqvars == <<fs, extdicts, scans, sample_zip, sample_jpg, op, result, retval,
             printed, dict_hash>>

zipvars == <<pc, wfile, zip_disk, zf>>

-----------------------------------------------------------------------------
(* Program constants *)

KB == 1024

MB == 1048576

BLOCKSIZE == 64 * KB

NOISE_THRESHOLD == 100 * MB

jpg_extensions == << <<"j","p","g">>, <<"j","p","e","g">>, <<"J","P","G">> >>

(* Bounds of the model *)

\* width of the modelled digest: digests are numbers in 0 .. DigestMod-1
DigestMod == 3

\* how many scans of one path the model follows before it stops counting
MaxScans == 2

\* the number of compress_file calls that run at the same time
NWorkers == 2

\* the duplicate detector is run on files of at most this many blocks
MaxHashBlocks == 3

\* the values of the quality argument
Qualities == {20, 80}

\* the noise thresholds a caller of the compression report may want
NoiseThresholds == {50 * MB, 100 * MB}

\* the arguments extension_stats is called with (n=5, should_print=False
\* are its defaults)
StatsArgs == {[n |-> 5, should_print |-> FALSE], [n |-> 1, should_print |-> TRUE]}

\* the entries of EntryTab a tree of the report model is drawn from (the
\* entry that cannot be stat'ed is walked in the duplicate-detector model)
ReportEntries == {3, 4, 5, 7, 8, 10}

-----------------------------------------------------------------------------
(* The file tree *)

None == [none |-> TRUE]

RootPath == <<"r">>

Run(b, n) == [b |-> b, n |-> n]

\* Every entry the tree can hold.  kind: "dir" or "file".  access: "ok",
\* "nostat" (stat()/is_file() raise PermissionError) or "noread" (stat works,
\* open() raises PermissionError).  image: the file decodes as an image.
\* comp: the size DEFLATE gives it.  reenc: its size re-encoded at a low and
\* at a high quality.
EntryTab == <<
    [path |-> <<"r","/","d","1">>, kind |-> "dir", access |-> "ok",
     content |-> <<>>, image |-> FALSE, comp |-> 0, reenc |-> <<0, 0>>],
    [path |-> <<"r","/","d","2">>, kind |-> "dir", access |-> "ok",
     content |-> <<>>, image |-> FALSE, comp |-> 0, reenc |-> <<0, 0>>],
    [path |-> <<"r","/","d","1","/","a",".","j","p","g">>, kind |-> "file",
     access |-> "ok", content |-> <<Run(1, 3)>>, image |-> TRUE,
     comp |-> 5, reenc |-> <<1, 2>>],
    [path |-> <<"r","/","d","1","/","b",".","J","P","G">>, kind |-> "file",
     access |-> "ok", content |-> <<Run(2, 2 * BLOCKSIZE), Run(7, 1)>>,
     image |-> FALSE, comp |-> 300, reenc |-> <<0, 0>>],
    [path |-> <<"r","/","d","2","/","c",".","j","p","e","g">>, kind |-> "file",
     access |-> "ok", content |-> <<>>, image |-> FALSE,
     comp |-> 2, reenc |-> <<0, 0>>],
    [path |-> <<"r","/","d","2","/","a",".","j","p","g">>, kind |-> "file",
     access |-> "ok", content |-> <<Run(1, 3)>>, image |-> TRUE,
     comp |-> 5, reenc |-> <<1, 2>>],
    [path |-> <<"r","/","b","i","g",".","d","a","t">>, kind |-> "file",
     access |-> "ok", content |-> <<Run(0, 150 * MB)>>, image |-> FALSE,
     comp |-> 30 * MB, reenc |-> <<0, 0>>],
    [path |-> <<"r","/","d","2","/","v",".","b","i","n">>, kind |-> "file",
     access |-> "ok", content |-> <<Run(3, 80 * MB)>>, image |-> FALSE,
     comp |-> 10 * MB, reenc |-> <<0, 0>>],
    [path |-> <<"r","/","d","1","/","n">>, kind |-> "file",
     access |-> "nostat", content |-> <<Run(4, 1)>>, image |-> FALSE,
     comp |-> 3, reenc |-> <<0, 0>>],
    [path |-> <<"r","/","d","2","/",".","m">>, kind |-> "file",
     access |-> "noread", content |-> <<Run(5, 2)>>, image |-> FALSE,
     comp |-> 4, reenc |-> <<0, 0>>]
  >>

Entries == 1 .. Len(EntryTab)

Dirs == {e \in Entries : EntryTab[e].kind = "dir"}

Files == {e \in Entries : EntryTab[e].kind = "file"}

DirPaths == {RootPath} \cup {EntryTab[e].path : e \in Dirs}

RECURSIVE ContentLen(_)
ContentLen(c) ==
    IF c = <<>> THEN 0 ELSE Head(c).n + ContentLen(Tail(c))

\* st_size of a file entry
StSize(e) == ContentLen(EntryTab[e].content)

IsPrefix(s, t) == Len(s) <= Len(t) /\ SubSeq(t, 1, Len(s)) = s

\* e lies somewhere below the directory dir_path
IsUnder(e, dir_path) ==
    LET p == EntryTab[e].path
    IN  Len(p) > Len(dir_path) + 1 /\ IsPrefix(dir_path \o <<"/">>, p)

\* e is an immediate child of the directory dir_path
IsChild(e, dir_path) ==
    /\ IsUnder(e, dir_path)
    /\ \A k \in (Len(dir_path) + 2) .. Len(EntryTab[e].path) :
           EntryTab[e].path[k] # "/"

Present(tree) == Dirs \cup tree

RECURSIVE InTableOrder(_, _)
\* the entries of the set S, in the order of the entry table, from e on
InTableOrder(e, S) ==
    IF e > Len(EntryTab) THEN <<>>
    ELSE (IF e \in S THEN <<e>> ELSE <<>>) \o InTableOrder(e + 1, S)

\* Path(dir_path).glob('**/*')
list_files_recursive(dir_path, tree) ==
    InTableOrder(1, {e \in Present(tree) : IsUnder(e, dir_path)})

\* Path(dir_path).iterdir()
iterdir(dir_path, tree) ==
    InTableOrder(1, {e \in Present(tree) : IsChild(e, dir_path)})

-----------------------------------------------------------------------------
(* os.path.splitext *)

RECURSIVE rfind(_, _, _)
\* the last index k <= from with p[k] = ch, or 0
rfind(p, ch, from) ==
    IF from = 0 THEN 0
    ELSE IF p[from] = ch THEN from ELSE rfind(p, ch, from - 1)

RECURSIVE splitext_scan(_, _, _)
splitext_scan(p, filenameIndex, dotIndex) ==
    IF filenameIndex < dotIndex
    THEN IF p[filenameIndex] # "."
         THEN <<SubSeq(p, 1, dotIndex - 1), SubSeq(p, dotIndex, Len(p))>>
         ELSE splitext_scan(p, filenameIndex + 1, dotIndex)
    ELSE <<p, <<>>>>

splitext(p) ==
    LET sepIndex == rfind(p, "/", Len(p))
        dotIndex == rfind(p, ".", Len(p))
    IN  IF dotIndex > sepIndex
        THEN splitext_scan(p, sepIndex + 1, dotIndex)
        ELSE <<p, <<>>>>

\* file_ext[1:]
StripFirst(s) == IF s = <<>> THEN <<>> ELSE Tail(s)

-----------------------------------------------------------------------------
(* The extension index: an insertion-ordered dict ext -> list of FileInfo *)

\* the value of an attribute (percent, percent_all) that was never assigned
NoAttr == -1

FileInfo(path, size) ==
    [path |-> path, size |-> size, percent |-> NoAttr, percent_all |-> NoAttr]

EmptyDict == [keys |-> <<>>, grp |-> <<>>]

HasKey(d, k) == \E i \in 1 .. Len(d.keys) : d.keys[i] = k

KeyIndex(d, k) == CHOOSE i \in 1 .. Len(d.keys) : d.keys[i] = k

\* d[k] of a defaultdict(list), read only where the key is known to exist
Get(d, k) == d.grp[KeyIndex(d, k)]

\* d[k] of a defaultdict(list): a missing key is inserted with an empty list
Touch(d, k) ==
    IF HasKey(d, k) THEN d
    ELSE [keys |-> Append(d.keys, k), grp |-> Append(d.grp, <<>>)]

\* d[k].append(x)
DictAppend(d, k, x) ==
    LET t == Touch(d, k)
        i == KeyIndex(t, k)
    IN  [t EXCEPT !.grp[i] = Append(@, x)]

RECURSIVE ScanLoop(_, _, _)
\* the for loop of get_ext_map over iter_files[i..]
ScanLoop(iter_files, i, ext_dict) ==
    IF i > Len(iter_files) THEN ext_dict
    ELSE LET e == iter_files[i]
             ent == EntryTab[e]
         IN  IF ent.access = "nostat"
             THEN ScanLoop(iter_files, i + 1, ext_dict)   \* except PermissionError: pass
             ELSE IF ent.kind = "file"
             THEN LET file_ext == splitext(ent.path)[2]
                      fi == FileInfo(e, StSize(e))
                  IN  ScanLoop(iter_files, i + 1,
                               DictAppend(ext_dict, StripFirst(file_ext), fi))
             ELSE ScanLoop(iter_files, i + 1, ext_dict)

\* the index a scan of dir_path builds
ScanIndex(dir_path, tree) ==
    ScanLoop(list_files_recursive(dir_path, tree), 1, EmptyDict)

Cached(cache, dir_path) == dir_path \in DOMAIN cache

\* what one scan of dir_path adds to the cache and to the scan counters
ScanAndStore(cache, cnt, dir_path, tree) ==
    [cache |-> [p \in DOMAIN cache \cup {dir_path} |->
                   IF p = dir_path THEN ScanIndex(dir_path, tree) ELSE cache[p]],
     cnt |-> [cnt EXCEPT ![dir_path] = @ + 1]]

\* get_ext_map without the test of line 146: every call scans
get_ext_map_rescan(cache, cnt, dir_path, tree) ==
    ScanAndStore(cache, cnt, dir_path, tree)

\* get_ext_map(dir_path): the cache and the scan counters after the call;
\* the value returned is cache[dir_path] of the result
get_ext_map(cache, cnt, dir_path, tree) ==
    IF Cached(cache, dir_path)
    THEN [cache |-> cache, cnt |-> cnt]
    ELSE ScanAndStore(cache, cnt, dir_path, tree)

Put(cache, dir_path, index) == [cache EXCEPT ![dir_path] = index]

-----------------------------------------------------------------------------
(* Arithmetic: round(m * a / b) without leaving 32 bits *)

RECURSIVE MulDivMod(_, _, _)
\* <<q, r>> with a * m = q * b + r and 0 <= r < b, for a >= 0, m >= 0, b > 0
MulDivMod(a, m, b) ==
    IF m = 0 THEN <<0, 0>>
    ELSE LET h == MulDivMod(a, m \div 2, b)
             dq == 2 * h[1] + ((2 * h[2]) \div b)
             dr == (2 * h[2]) % b
         IN  IF m % 2 = 1
             THEN <<dq + ((dr + a) \div b), (dr + a) % b>>
             ELSE <<dq, dr>>

\* round(m * a / b), ties to even, for b > 0
RoundDiv(a, m, b) ==
    LET qr == MulDivMod(IF a < 0 THEN -a ELSE a, m, b)
        up == \/ 2 * qr[2] > b
              \/ 2 * qr[2] = b /\ qr[1] % 2 = 1
        mag == IF up THEN qr[1] + 1 ELSE qr[1]
    IN  IF a < 0 THEN -mag ELSE mag

RECURSIVE SumSizes(_)
\* sum([f.size for f in values])
SumSizes(values) ==
    IF values = <<>> THEN 0 ELSE Head(values).size + SumSizes(Tail(values))

-----------------------------------------------------------------------------
(* extension_stats *)

\* f.percent = round((f.size / ext_sum) * 100, 2), in hundredths of a percent
SetPercent(values, ext_sum) ==
    [j \in 1 .. Len(values) |->
        [values[j] EXCEPT !.percent = RoundDiv(values[j].size, 10000, ext_sum)]]

SetPercentAll(values, ext_sum_all) ==
    [j \in 1 .. Len(values) |->
        [values[j] EXCEPT !.percent_all =
                              RoundDiv(values[j].size, 10000, ext_sum_all)]]

RECURSIVE StatsPass1(_, _, _)
\* the first loop of extension_stats, from the i-th key on
StatsPass1(d, i, ext_sum_all) ==
    IF i > Len(d.keys)
    THEN [d |-> d, ext_sum_all |-> ext_sum_all, exc |-> "none"]
    ELSE LET values == d.grp[i]
             ext_sum == SumSizes(values)
         IN  IF values # <<>> /\ ext_sum = 0
             THEN [d |-> d, ext_sum_all |-> ext_sum_all + ext_sum,
                   exc |-> "ZeroDivisionError"]
             ELSE StatsPass1([d EXCEPT !.grp[i] = SetPercent(values, ext_sum)],
                             i + 1, ext_sum_all + ext_sum)

RECURSIVE StatsPass2(_, _, _)
\* the second loop of extension_stats, from the i-th key on
StatsPass2(d, i, ext_sum_all) ==
    IF i > Len(d.keys) THEN [d |-> d, exc |-> "none"]
    ELSE LET values == d.grp[i]
         IN  IF values # <<>> /\ ext_sum_all = 0
             THEN [d |-> d, exc |-> "ZeroDivisionError"]
             ELSE StatsPass2(
                      [d EXCEPT !.grp[i] = SetPercentAll(values, ext_sum_all)],
                      i + 1, ext_sum_all)

RECURSIVE InsertBySize(_, _)
\* insert x behind every element that is at least as large (stable)
InsertBySize(sorted, x) ==
    IF sorted = <<>> THEN <<x>>
    ELSE IF Head(sorted).size >= x.size
         THEN <<Head(sorted)>> \o InsertBySize(Tail(sorted), x)
         ELSE <<x>> \o sorted

RECURSIVE SortBySizeDesc(_, _)
\* v.sort(key=lambda curr_f: curr_f.size, reverse=True)
SortBySizeDesc(v, sorted) ==
    IF v = <<>> THEN sorted
    ELSE SortBySizeDesc(Tail(v), InsertBySize(sorted, Head(v)))

SortGroups(d) ==
    [d EXCEPT !.grp = [i \in 1 .. Len(d.grp) |-> SortBySizeDesc(d.grp[i], <<>>)]]

FirstN(v, n) == SubSeq(v, 1, IF Len(v) < n THEN Len(v) ELSE n)

\* the lines printed when should_print is set
TopLines(d, n) ==
    [i \in 1 .. Len(d.keys) |-> [ext |-> d.keys[i], top |-> FirstN(d.grp[i], n)]]

\* extension_stats on the index ext_dict
StatsOn(ext_dict, n, should_print) ==
    LET p1 == StatsPass1(ext_dict, 1, 0)
        p2 == StatsPass2(p1.d, 1, p1.ext_sum_all)
        sorted == SortGroups(p2.d)
    IN  IF p1.exc # "none"
        THEN [d |-> p1.d, exc |-> p1.exc, lines |-> <<>>]
        ELSE IF p2.exc # "none"
        THEN [d |-> p2.d, exc |-> p2.exc, lines |-> <<>>]
        ELSE [d |-> sorted, exc |-> "none",
              lines |-> IF should_print THEN TopLines(sorted, n) ELSE <<>>]

-----------------------------------------------------------------------------
(* compress_file and compress_report *)

\* the exception zf.write(f) raises, or "none"
ZipWriteExc(f, tree) ==
    IF f \notin tree THEN "FileNotFoundError"
    ELSE IF EntryTab[f].access # "ok" THEN "PermissionError"
    ELSE "none"

\* compress_file(f): the exception, the ZipFile it returns, and whether
\* 'sample.zip' exists afterwards.  ZipFile(..., 'w') creates the file.
compress_file(f, tree) ==
    LET created == TRUE
        exc == ZipWriteExc(f, tree)
    IN  IF exc # "none"
        THEN [exc |-> exc, zf |-> None, exists |-> created]
        ELSE [exc |-> "none",
              zf |-> [name |-> f, file_size |-> StSize(f),
                      compress_size |-> EntryTab[f].comp],
              exists |-> FALSE]

\* ExtInfo.__init__
ExtInfo(ex, nfiles, size, comp_size) ==
    IF size = 0
    THEN [exc |-> "ZeroDivisionError", ei |-> None]
    ELSE [exc |-> "none",
          ei |-> [ex |-> ex, nfiles |-> nfiles, size |-> size,
                  comp_size |-> comp_size, diff |-> size - comp_size,
                  diff_percent |-> RoundDiv(size - comp_size, 10000, size)]]

RECURSIVE MeasureFiles(_, _, _, _, _, _)
\* the inner loop of compress_report over files_list[j..]
MeasureFiles(files_list, j, total_size, total_size_comp, zip, tree) ==
    IF j > Len(files_list)
    THEN [exc |-> "none", total_size |-> total_size,
          total_size_comp |-> total_size_comp, zip |-> zip]
    ELSE LET c == compress_file(files_list[j].path, tree)
         IN  IF c.exc # "none"
             THEN [exc |-> c.exc, total_size |-> total_size,
                   total_size_comp |-> total_size_comp, zip |-> c.exists]
             ELSE MeasureFiles(files_list, j + 1,
                               total_size + c.zf.file_size,
                               total_size_comp + c.zf.compress_size,
                               c.exists, tree)

RECURSIVE MeasureExts(_, _, _, _, _)
\* the outer loop of compress_report over the keys of ext_dict, from i on
MeasureExts(ext_dict, i, ext_info_list, zip, tree) ==
    IF i > Len(ext_dict.keys)
    THEN [exc |-> "none", ext_info_list |-> ext_info_list, zip |-> zip]
    ELSE LET files_list == ext_dict.grp[i]
             m == MeasureFiles(files_list, 1, 0, 0, zip, tree)
             x == ExtInfo(ext_dict.keys[i], Len(files_list),
                          m.total_size, m.total_size_comp)
         IN  IF m.exc # "none"
             THEN [exc |-> m.exc, ext_info_list |-> ext_info_list, zip |-> m.zip]
             ELSE IF x.exc # "none"
             THEN [exc |-> x.exc, ext_info_list |-> ext_info_list, zip |-> m.zip]
             ELSE MeasureExts(ext_dict, i + 1, Append(ext_info_list, x.ei),
                              m.zip, tree)

\* the summaries compress_report prints
ReportFilter(ei) == ei.diff > NOISE_THRESHOLD

ReportLines(ext_info_list) == SelectSeq(ext_info_list, ReportFilter)

-----------------------------------------------------------------------------
(* jpg_quality_reduce_report *)

\* the exception Image.open(path) raises, or "none"
ImageOpenExc(e, tree) ==
    IF e \notin tree THEN "FileNotFoundError"
    ELSE IF EntryTab[e].access # "ok" THEN "PermissionError"
    ELSE IF ~EntryTab[e].image THEN "UnidentifiedImageError"
    ELSE "none"

\* the size of sample.jpg after foo.save(sample_file, quality=quality)
ReencSize(e, quality) ==
    IF quality < 50 THEN EntryTab[e].reenc[1] ELSE EntryTab[e].reenc[2]

RECURSIVE JpgFiles_keepcount(_, _, _, _, _)
\* JpgFiles without the num_files -= 1 of line 231
JpgFiles_keepcount(files, j, acc, tree, quality) ==
    IF j > Len(files) THEN acc
    ELSE LET jpg_fi == files[j]
             exc == ImageOpenExc(jpg_fi.path, tree)
         IN  IF exc = "none"
             THEN JpgFiles_keepcount(files, j + 1,
                      [acc EXCEPT !.sample = TRUE,
                                  !.total_before = @ + jpg_fi.size,
                                  !.total_after = @ + ReencSize(jpg_fi.path, quality)],
                      tree, quality)
             ELSE IF exc = "UnidentifiedImageError"
             THEN JpgFiles_keepcount(files, j + 1, acc, tree, quality)
             ELSE [acc EXCEPT !.exc = exc]

RECURSIVE JpgFiles(_, _, _, _, _)
\* the loop over em[ex_type][j..]; acc carries the running totals
JpgFiles(files, j, acc, tree, quality) ==
    IF j > Len(files) THEN acc
    ELSE LET jpg_fi == files[j]
             exc == ImageOpenExc(jpg_fi.path, tree)
         IN  IF exc = "none"
             THEN JpgFiles(files, j + 1,
                      [acc EXCEPT !.sample = TRUE,
                                  !.total_before = @ + jpg_fi.size,
                                  !.total_after = @ + ReencSize(jpg_fi.path, quality)],
                      tree, quality)
             ELSE IF exc = "UnidentifiedImageError"
             THEN JpgFiles(files, j + 1, [acc EXCEPT !.num_files = @ - 1],
                           tree, quality)
             ELSE [acc EXCEPT !.exc = exc]

RECURSIVE JpgTypes(_, _, _, _, _)
\* the loop over jpg_extensions[k..]
JpgTypes(em, k, acc, tree, quality) ==
    IF k > Len(jpg_extensions) \/ acc.exc # "none" THEN acc
    ELSE JpgTypes(em, k + 1,
                  JpgFiles(Get(em, jpg_extensions[k]), 1, acc, tree, quality),
                  tree, quality)

RECURSIVE TouchAll(_, _, _)
\* [len(em[x]) for x in jpg_extensions]: each em[x] inserts a missing key
TouchAll(em, keys, k) ==
    IF k > Len(keys) THEN em ELSE TouchAll(Touch(em, keys[k]), keys, k + 1)

RECURSIVE SumLens(_, _, _)
SumLens(em, keys, k) ==
    IF k > Len(keys) THEN 0
    ELSE Len(Get(em, keys[k])) + SumLens(em, keys, k + 1)

RECURSIVE JpgDirs(_, _, _, _, _)
\* the loop over Path(self.path).iterdir()[i..]
JpgDirs(entries, i, st, tree, quality) ==
    IF i > Len(entries) \/ st.exc # "none" THEN st
    ELSE LET e == entries[i]
             dir_path == EntryTab[e].path
         IN  IF EntryTab[e].kind # "dir"
             THEN JpgDirs(entries, i + 1, st, tree, quality)
             ELSE
             LET g == get_ext_map(st.cache, st.cnt, dir_path, tree)
                 cache1 == g.cache
                 cnt1 == g.cnt
                 em == TouchAll(cache1[dir_path], jpg_extensions, 1)
                 acc0 == [num_files |-> SumLens(em, jpg_extensions, 1),
                          total_before |-> 0, total_after |-> 0,
                          sample |-> st.sample, exc |-> "none"]
                 acc == JpgTypes(em, 1, acc0, tree, quality)
                 line == [dir |-> dir_path, num_files |-> acc.num_files,
                          total_before |-> acc.total_before,
                          total_after |-> acc.total_after,
                          dr_ratio |-> RoundDiv(acc.total_before - acc.total_after,
                                                100, acc.total_before),
                          quality |-> quality]
                 st1 == [st EXCEPT !.cache = Put(cache1, dir_path, em),
                                   !.cnt = cnt1,
                                   !.sample = acc.sample]
             IN  IF acc.exc # "none"
                 THEN [st1 EXCEPT !.exc = acc.exc]
                 ELSE IF acc.num_files = 0
                 THEN JpgDirs(entries, i + 1, st1, tree, quality)
                 ELSE IF acc.total_before = 0
                 THEN [st1 EXCEPT !.exc = "ZeroDivisionError"]
                 ELSE JpgDirs(entries, i + 1,
                              [st1 EXCEPT !.lines = Append(@, line)],
                              tree, quality)

-----------------------------------------------------------------------------
(* generate_hash and find_duplicates *)

RECURSIVE TakeBytes(_, _)
\* the first n bytes of the stream c
TakeBytes(c, n) ==
    IF n = 0 \/ c = <<>> THEN <<>>
    ELSE IF Head(c).n <= n
         THEN <<Head(c)>> \o TakeBytes(Tail(c), n - Head(c).n)
         ELSE <<Run(Head(c).b, n)>>

RECURSIVE DropBytes(_, _)
\* the stream c without its first n bytes
DropBytes(c, n) ==
    IF n = 0 \/ c = <<>> THEN c
    ELSE IF Head(c).n <= n
         THEN DropBytes(Tail(c), n - Head(c).n)
         ELSE <<Run(Head(c).b, Head(c).n - n)>> \o Tail(c)

RECURSIVE HashUpdate(_, _)
\* file_hash.update(buf): the digest is modelled as the sum of (byte + 1)
\* over the stream, modulo DigestMod
HashUpdate(h, buf) ==
    IF buf = <<>> THEN h
    ELSE HashUpdate((h + (Head(buf).b + 1) * Head(buf).n) % DigestMod, Tail(buf))

RECURSIVE HashLoop(_, _)
\* buf = f.read(BLOCKSIZE); while len(buf) > 0: update; read
HashLoop(rest, file_hash) ==
    LET buf == TakeBytes(rest, BLOCKSIZE)
    IN  IF ContentLen(buf) > 0
        THEN HashLoop(DropBytes(rest, BLOCKSIZE), HashUpdate(file_hash, buf))
        ELSE file_hash

\* generate_hash(file_path): the exception of open(), or the hexdigest
generate_hash(e, tree) ==
    IF EntryTab[e].access # "ok"
    THEN [exc |-> "PermissionError", digest |-> 0]
    ELSE [exc |-> "none", digest |-> HashLoop(EntryTab[e].content, 0)]

RECURSIVE DupLoop(_, _, _, _)
\* the first loop of find_duplicates over file_list[i..]
DupLoop(file_list, i, dh, tree) ==
    IF i > Len(file_list) THEN [exc |-> "none", dict_hash |-> dh]
    ELSE LET fullpath == file_list[i]
         IN  IF EntryTab[fullpath].access = "nostat"     \* is_file() raises
             THEN [exc |-> "PermissionError", dict_hash |-> dh]
             ELSE IF EntryTab[fullpath].kind # "file"
             THEN DupLoop(file_list, i + 1, dh, tree)
             ELSE LET g == generate_hash(fullpath, tree)
                  IN  IF g.exc # "none"
                      THEN [exc |-> g.exc, dict_hash |-> dh]
                      ELSE DupLoop(file_list, i + 1,
                                   DictAppend(dh, g.digest, fullpath), tree)

\* the test of line 142 with >= in place of >
IsDupGroup_single(dup_files) == Len(dup_files) >= 1

\* if len(dup_files) > 1
IsDupGroup(dup_files) == Len(dup_files) > 1

\* the groups find_duplicates prints
DupLines(dh) == SelectSeq(dh.grp, IsDupGroup)

-----------------------------------------------------------------------------
(* Operations of one FileMgmt(RootPath) instance *)

CanScan(dir_path) == scans[dir_path] < MaxScans

GetExtMap(dir_path) ==
    /\ CanScan(dir_path)
    /\ \E g \in {get_ext_map(extdicts, scans, dir_path, fs)} :
           /\ extdicts' = g.cache
           /\ scans' = g.cnt
           /\ retval' = g.cache[dir_path]
    /\ op' = [name |-> "get_ext_map", arg |-> dir_path]
    /\ result' = "returned"
    /\ printed' = <<>>
    /\ UNCHANGED <<fs, sample_zip, sample_jpg, dict_hash>>
    /\ UNCHANGED zipvars

ExtensionStats(dir_path, n, should_print) ==
    /\ CanScan(dir_path)
    /\ \E g \in {get_ext_map(extdicts, scans, dir_path, fs)} :
       \E r \in {StatsOn(g.cache[dir_path], n, should_print)} :
           /\ extdicts' = Put(g.cache, dir_path, r.d)
           /\ scans' = g.cnt
           /\ result' = IF r.exc = "none" THEN "returned" ELSE r.exc
           /\ printed' = r.lines
    /\ op' = [name |-> "extension_stats", arg |-> dir_path]
    /\ retval' = None
    /\ UNCHANGED <<fs, sample_zip, sample_jpg, dict_hash>>
    /\ UNCHANGED zipvars

CompressFile(f) ==
    /\ \E c \in {compress_file(f, fs)} :
           /\ sample_zip' = c.exists
           /\ result' = IF c.exc = "none" THEN "returned" ELSE c.exc
           /\ retval' = c.zf
    /\ op' = [name |-> "compress_file", arg |-> f]
    /\ printed' = <<>>
    /\ UNCHANGED <<fs, extdicts, scans, sample_jpg, dict_hash>>
    /\ UNCHANGED zipvars

\* wanted is the noise threshold the caller has in mind: compress_report(self)
\* has no parameter that could carry it
CompressReport(wanted) ==
    /\ CanScan(RootPath)
    /\ \E g \in {get_ext_map(extdicts, scans, RootPath, fs)} :
       \E m \in {MeasureExts(g.cache[RootPath], 1, <<>>, sample_zip, fs)} :
           /\ extdicts' = g.cache
           /\ scans' = g.cnt
           /\ sample_zip' = m.zip
           /\ result' = IF m.exc = "none" THEN "returned" ELSE m.exc
           /\ printed' = IF m.exc = "none" THEN ReportLines(m.ext_info_list)
                         ELSE <<>>
    /\ op' = [name |-> "compress_report", arg |-> wanted]
    /\ retval' = None
    /\ UNCHANGED <<fs, sample_jpg, dict_hash>>
    /\ UNCHANGED zipvars

JpgQualityReduceReport(quality) ==
    /\ \A p \in DirPaths : CanScan(p)
    /\ \E st \in {JpgDirs(iterdir(RootPath, fs), 1,
                          [cache |-> extdicts, cnt |-> scans, lines |-> <<>>,
                           sample |-> sample_jpg, exc |-> "none"],
                          fs, quality)} :
           /\ extdicts' = st.cache
           /\ scans' = st.cnt
           /\ printed' = st.lines
           /\ result' = IF st.exc = "none" THEN "returned" ELSE st.exc
           /\ sample_jpg' = IF st.exc = "none" THEN FALSE ELSE st.sample
    /\ op' = [name |-> "jpg_quality_reduce_report", arg |-> quality]
    /\ retval' = None
    /\ UNCHANGED <<fs, sample_zip, dict_hash>>
    /\ UNCHANGED zipvars

FindDuplicates(dir_path) ==
    /\ \E r \in {DupLoop(list_files_recursive(dir_path, fs), 1, EmptyDict, fs)} :
           /\ dict_hash' = r.dict_hash
           /\ result' = IF r.exc = "none" THEN "returned" ELSE r.exc
           /\ printed' = IF r.exc = "none" THEN DupLines(r.dict_hash) ELSE <<>>
    /\ op' = [name |-> "find_duplicates", arg |-> dir_path]
    /\ retval' = None
    /\ UNCHANGED <<fs, extdicts, scans, sample_zip, sample_jpg>>
    /\ UNCHANGED zipvars

-----------------------------------------------------------------------------
(* compress_file, statement by statement, called by several workers at once *)
(* in one working directory (POSIX file semantics).                         *)
(*                                                                          *)
(* zip_disk is None when no file is at the path 'sample.zip'; otherwise     *)
(* creator is the worker whose ZipFile(...) last created or truncated it,   *)
(* and data the workers whose archive members are in it.  zf[w].linked      *)
(* tells whether the file w holds open is still the one at the path.        *)

Workers == 1 .. NWorkers

sample_filepath == <<"s","a","m","p","l","e",".","z","i","p">>

Unlink(handles) ==
    [w \in Workers |->
        IF handles[w] = None THEN None ELSE [handles[w] EXCEPT !.linked = FALSE]]

\* sample_filepath = 'sample.zip'; zipfile.ZipFile(sample_filepath, 'w')
ZipOpen(w, f) ==
    /\ pc[w] \in {"idle", "returned", "raised"}
    /\ wfile' = [wfile EXCEPT ![w] = f]
    /\ zip_disk' = [creator |-> w, data |-> {}]
    /\ zf' = [(IF zip_disk = None THEN Unlink(zf) ELSE zf) EXCEPT
                 ![w] = [linked |-> TRUE, file_size |-> 0, compress_size |-> 0]]
    /\ pc' = [pc EXCEPT ![w] = "opened"]
    /\ UNCHANGED seqvars

\* zf.write(f, compress_type=zipfile.ZIP_DEFLATED) succeeds
ZipWrite(w) ==
    /\ pc[w] = "opened"
    /\ ZipWriteExc(wfile[w], fs) = "none"
    /\ zf' = [zf EXCEPT ![w].file_size = StSize(wfile[w]),
                        ![w].compress_size = EntryTab[wfile[w]].comp]
    /\ zip_disk' = IF zf[w].linked
                   THEN [zip_disk EXCEPT !.data = @ \cup {w}]
                   ELSE zip_disk
    /\ pc' = [pc EXCEPT ![w] = "written"]
    /\ UNCHANGED <<wfile>>
    /\ UNCHANGED seqvars

\* zf.write raises: the with block closes the archive and the exception
\* leaves compress_file
ZipWriteFails(w) ==
    /\ pc[w] = "opened"
    /\ ZipWriteExc(wfile[w], fs) # "none"
    /\ pc' = [pc EXCEPT ![w] = "raised"]
    /\ UNCHANGED <<wfile, zip_disk, zf>>
    /\ UNCHANGED seqvars

\* the end of the with block: ZipFile.close()
ZipClose(w) ==
    /\ pc[w] = "written"
    /\ pc' = [pc EXCEPT ![w] = "closed"]
    /\ UNCHANGED <<wfile, zip_disk, zf>>
    /\ UNCHANGED seqvars

\* if os.path.exists(sample_filepath):
ZipExists(w) ==
    /\ pc[w] = "closed"
    /\ pc' = [pc EXCEPT ![w] = IF zip_disk # None THEN "exists" ELSE "returned"]
    /\ UNCHANGED <<wfile, zip_disk, zf>>
    /\ UNCHANGED seqvars

\* os.remove(sample_filepath); return zf
ZipRemove(w) ==
    /\ pc[w] = "exists"
    /\ IF zip_disk # None
       THEN /\ zip_disk' = None
            /\ zf' = Unlink(zf)
            /\ pc' = [pc EXCEPT ![w] = "returned"]
       ELSE /\ pc' = [pc EXCEPT ![w] = "raised"]     \* FileNotFoundError
            /\ UNCHANGED <<zip_disk, zf>>
    /\ UNCHANGED <<wfile>>
    /\ UNCHANGED seqvars

-----------------------------------------------------------------------------
InitSeq ==
    /\ extdicts = <<>>
    /\ scans = [p \in DirPaths |-> 0]
    /\ sample_zip = FALSE
    /\ sample_jpg = FALSE
    /\ op = [name |-> "init", arg |-> None]
    /\ result = "returned"
    /\ retval = None
    /\ printed = <<>>
    /\ dict_hash = EmptyDict

InitZip ==
    /\ pc = [w \in Workers |-> "idle"]
    /\ wfile = [w \in Workers |-> 0]
    /\ zip_disk = None
    /\ zf = [w \in Workers |-> None]

Init ==
    /\ fs \in SUBSET ReportEntries
    /\ InitSeq
    /\ InitZip

Next ==
    \/ \E dir_path \in DirPaths : GetExtMap(dir_path)
    \/ \E dir_path \in DirPaths, a \in StatsArgs :
           ExtensionStats(dir_path, a.n, a.should_print)
    \/ \E f \in Files : CompressFile(f)
    \/ \E wanted \in NoiseThresholds : CompressReport(wanted)
    \/ \E quality \in Qualities : JpgQualityReduceReport(quality)

Spec == Init /\ [][Next]_vars

\* the files the duplicate detector is run on
HashableFiles == {e \in Files : StSize(e) <= MaxHashBlocks * BLOCKSIZE}

InitDup ==
    /\ fs \in SUBSET HashableFiles
    /\ InitSeq
    /\ InitZip

NextDup ==
    \/ \E dir_path \in DirPaths : FindDuplicates(dir_path)
    \/ \E dir_path \in DirPaths : GetExtMap(dir_path)

SpecDup == InitDup /\ [][NextDup]_vars

InitWorkers ==
    /\ fs = ReportEntries
    /\ InitSeq
    /\ InitZip

NextZip ==
    \/ \E w \in Workers, f \in fs : ZipOpen(w, f)
    \/ \E w \in Workers : ZipWrite(w)
    \/ \E w \in Workers : ZipWriteFails(w)
    \/ \E w \in Workers : ZipClose(w)
    \/ \E w \in Workers : ZipExists(w)
    \/ \E w \in Workers : ZipRemove(w)

SpecZip == InitWorkers /\ [][NextZip]_vars

-----------------------------------------------------------------------------
(* Helpers of the properties *)

Range(q) == {q[i] : i \in 1 .. Len(q)}

\* the positions <<i, j>> of the records of an index
Positions(d) ==
    {ij \in (1 .. Len(d.keys)) \X Entries :
        ij[2] <= Len(d.grp[ij[1]])}

RECURSIVE SetSum(_, _, _)
\* the sum of weight[x] over the elements x of S
SetSum(S, d, weight) ==
    IF S = {} THEN 0
    ELSE LET x == CHOOSE y \in S : TRUE
             fi == d.grp[x[1]][x[2]]
             w == IF weight = "size" THEN fi.size
                  ELSE IF weight = "low" THEN EntryTab[fi.path].reenc[1]
                  ELSE EntryTab[fi.path].reenc[2]
         IN  w + SetSum(S \ {x}, d, weight)

\* the records of the jpg-family groups of an index that decode as images
Decodable(d) ==
    {ij \in Positions(d) :
        /\ d.keys[ij[1]] \in Range(jpg_extensions)
        /\ EntryTab[d.grp[ij[1]][ij[2]].path].image}

\* the records of the jpg-family groups of an index
JpgFamily(d) ==
    {ij \in Positions(d) : d.keys[ij[1]] \in Range(jpg_extensions)}

SubdirPaths == {EntryTab[e].path : e \in Dirs}

\* the files of the tree below dir_path
FilesUnder(dir_path) == {e \in fs : IsUnder(e, dir_path)}

\* the paths held by the groups of dict_hash, with their group
GroupsOf(dh, e) ==
    {ij \in (1 .. Len(dh.keys)) \X Entries :
        ij[2] <= Len(dh.grp[ij[1]]) /\ dh.grp[ij[1]][ij[2]] = e}

IndexedPaths(d) == {d.grp[ij[1]][ij[2]].path : ij \in Positions(d)}

RECURSIVE SumComp(_)
\* the aggregate DEFLATE size of the files of a group
SumComp(values) ==
    IF values = <<>> THEN 0
    ELSE EntryTab[Head(values).path].comp + SumComp(Tail(values))

\* the aggregate original size minus the aggregate compressed size of group i
GroupDiff(d, i) == SumSizes(d.grp[i]) - SumComp(d.grp[i])

-----------------------------------------------------------------------------
(* Properties *)

\* C1: the first get_ext_map call for a path scans once and stores the index
\* under that path; every later call for the path returns the stored index
\* and scans nothing, so no path is ever scanned more than once.
C1_ScanOncePerPath ==
    [][\A p \in DirPaths :
         /\ scans'[p] <= 1
         /\ Cached(extdicts, p) =>
               /\ Cached(extdicts', p)
               /\ scans'[p] = scans[p]
               /\ (op'.name = "get_ext_map" /\ op'.arg = p) =>
                     /\ retval' = extdicts[p]
                     /\ extdicts'[p] = extdicts[p]
         /\ (~Cached(extdicts, p) /\ op'.name = "get_ext_map" /\ op'.arg = p) =>
               /\ scans'[p] = 1
               /\ Cached(extdicts', p)
               /\ retval' = extdicts'[p]
      ]_vars

\* a get_ext_map call answered from the cache: the index it returned is not
\* the one a scan would build now (a report has sorted or extended it)
C1_Witness ==
    /\ op.name = "get_ext_map"
    /\ scans[op.arg] = 1
    /\ retval = extdicts[op.arg]
    /\ retval # ScanIndex(op.arg, fs)

\* C2: whenever compress_file returns or raises, 'sample.zip' no longer
\* exists.
C2_SampleZipAlwaysDeleted ==
    op.name \in {"compress_file", "compress_report"} => ~sample_zip

\* a group of the index of op.arg that holds files and whose sizes sum to 0
HasZeroSumGroup(d) ==
    \E i \in 1 .. Len(d.keys) : d.grp[i] # <<>> /\ SumSizes(d.grp[i]) = 0

\* C3: extension_stats on an index with a group whose sizes sum to 0 skips the
\* percentages of that group and completes without a division by zero.
C3_ZeroTotalGuarded ==
    (op.name = "extension_stats" /\ HasZeroSumGroup(extdicts[op.arg])) =>
        /\ result = "returned"
        /\ \A i \in 1 .. Len(extdicts[op.arg].keys) :
              LET values == extdicts[op.arg].grp[i]
              IN  SumSizes(values) = 0 =>
                      \A j \in 1 .. Len(values) : values[j].percent = NoAttr

\* C4: compress_report leaves an extension whose aggregate original size is 0
\* out of the report and never divides by that size.
C4_ZeroOriginalExcluded ==
    (op.name = "compress_report" /\ HasZeroSumGroup(extdicts[RootPath])) =>
        result # "ZeroDivisionError"

\* C5: the compression report prints exactly the summaries whose diff is
\* greater than the noise threshold its caller supplies.
C5_CallerThresholdFilters ==
    (op.name = "compress_report" /\ result = "returned") =>
        LET d == extdicts[RootPath]
        IN  /\ {printed[k].ex : k \in 1 .. Len(printed)}
                  = {d.keys[i] : i \in {n \in 1 .. Len(d.keys) :
                                           GroupDiff(d, n) > op.arg}}
            /\ \A k \in 1 .. Len(printed) : printed[k].diff > op.arg

C8_AccessDeniedSkipped ==
    /\ op.name = "get_ext_map" =>
          /\ result = "returned"
          /\ \A e \in FilesUnder(op.arg) :
                EntryTab[e].access # "nostat" => e \in IndexedPaths(retval)
    /\ op.name = "find_duplicates" =>
          /\ result = "returned"
          /\ \A e \in FilesUnder(op.arg) :
                EntryTab[e].access = "ok" => GroupsOf(dict_hash, e) # {}

\* w is between creating its archive and deleting it
Measuring(w) == pc[w] \in {"opened", "written", "closed", "exists"}

\* C9: while a compress_file call measures a file, the archive at its path is
\* the one it created and holds nothing written by another call.
C9_ArtifactPerCall ==
    \A w \in Workers :
        Measuring(w) =>
            /\ zip_disk # None
            /\ zip_disk.creator = w
            /\ zip_disk.data \subseteq {w}

\* C10: every cached index holds only keys the scan of its path found, each
\* with a non-empty group.
C10_IndexKeysFromScan ==
    \A p \in DOMAIN extdicts :
        \A i \in 1 .. Len(extdicts[p].keys) :
            /\ extdicts[p].grp[i] # <<>>
            /\ extdicts[p].keys[i] \in Range(ScanIndex(p, fs).keys)

====
